---- MODULE Spec2Model ----
(***************************************************************************)
(* undocker3: resolve an image of a "docker save" archive to its chain of  *)
(* layers and extract the chain onto one output tree (src/undocker3.py).   *)
(*                                                                         *)
(* Strings that the program takes apart (entry paths, the image reference) *)
(* are sequences of one-character strings / tokens, so that startswith,    *)
(* slicing, replace, split and the sort by name are computed as Python     *)
(* computes them.  File modes are naturals, with & and | computed bitwise. *)
(***************************************************************************)
EXTENDS Naturals, Sequences, FiniteSets, TLC

VARIABLES
    args,         \* the parsed command line (parse_args)
    repos,        \* the archive's 'repositories' manifest, in document order
    parent,       \* the archive's <id>/json: id -> parent id, NoParent, or no entry
    tars,         \* the archive's <id>/layer.tar: id -> sequence of members
    env,          \* the process: [root: is euid 0, fail: the attribute call that fails]
    pc,           \* position in main
    outcome,      \* how the process ended ("" while running)
    top,          \* main's top
    cur,          \* the id find_layers is called with next
    layers,       \* list(find_layers(img, top)), as built so far
    lookups,      \* history: the ids whose json was opened, in order
    fs,           \* the file system: <<root, name>> -> node
    idx,          \* position in reversed(layers)
    k,            \* position in the current layer's members
    directories,  \* extractall's directories list
    log           \* history: what was done to the file system, in order

vars == <<args, repos, parent, tars, env, pc, outcome, top, cur, layers,
          lookups, fs, idx, k, directories, log>>

-----------------------------------------------------------------------------
(* Program constants *)

OWNER_READ_WRITE == 448

DIRECTORY_MODE == 16384

OWNER_WRITE == 130

-----------------------------------------------------------------------------
(* Bounds *)

\* The interpreter's recursion limit, scaled down: find_layers recurses once
\* per layer of the chain and has no other bound.
MaxDepth == 5

-----------------------------------------------------------------------------
(* Integers and sequences *)

RECURSIVE BitAnd(_, _)
BitAnd(a, b) ==
    IF a = 0 \/ b = 0 THEN 0
    ELSE (a % 2) * (b % 2) + 2 * BitAnd(a \div 2, b \div 2)

RECURSIVE BitOr(_, _)
BitOr(a, b) ==
    IF a = 0 THEN b
    ELSE IF b = 0 THEN a
    ELSE (IF a % 2 = 1 \/ b % 2 = 1 THEN 1 ELSE 0) + 2 * BitOr(a \div 2, b \div 2)

Range(s) == {s[i] : i \in 1..Len(s)}

Reverse(s) == [i \in 1..Len(s) |-> s[Len(s) + 1 - i]]

\* s[n:] of Python, n counted from 0
From(s, n) == IF n >= Len(s) THEN <<>> ELSE SubSeq(s, n + 1, Len(s))

\* s.startswith(p)
StartsWith(s, p) == Len(s) >= Len(p) /\ SubSeq(s, 1, Len(p)) = p

\* p in s, for strings
Contains(s, p) ==
    \E i \in 0..Len(s) : i + Len(p) <= Len(s) /\ SubSeq(s, i + 1, i + Len(p)) = p

\* s.replace(old, new): every occurrence, left to right, not overlapping
RECURSIVE Replace(_, _, _)
Replace(s, old, new) ==
    IF Len(s) < Len(old) THEN s
    ELSE IF StartsWith(s, old) THEN new \o Replace(From(s, Len(old)), old, new)
    ELSE <<s[1]>> \o Replace(Tail(s), old, new)

\* The code point of a character of the model's alphabet.
CharCode(c) ==
    CASE c = "." -> 46
      [] c = "/" -> 47
      [] c = "a" -> 97
      [] c = "b" -> 98
      [] c = "c" -> 99
      [] c = "h" -> 104
      [] c = "w" -> 119

\* s < t for Python strings
RECURSIVE StrLess(_, _)
StrLess(s, t) ==
    IF t = <<>> THEN FALSE
    ELSE IF s = <<>> THEN TRUE
    ELSE IF s[1] = t[1] THEN StrLess(Tail(s), Tail(t))
    ELSE CharCode(s[1]) < CharCode(t[1])

-----------------------------------------------------------------------------
(* The inputs: archives and command lines *)

Ids == {"L1", "L2", "L3"}

\* An id that no <id>/json of the archive describes.
NoJson == "L0"

\* 'parent' not in info
NoParent == "-"

WH == <<".", "w", "h", ".">>

Pa == <<"a">>

Pab == <<"a", "/", "b">>

Pc == <<"c">>

PwhA == WH \o Pa

PwhC == WH \o Pc

PaWhB == <<"a", "/">> \o WH \o <<"b">>

PwhAb == WH \o Pab

Reg(n, m) == [name |-> n, type |-> "reg", mode |-> m]

Dir(n, m) == [name |-> n, type |-> "dir", mode |-> m]

\* Layer archives.  Modes: 420 = 0o644, 292 = 0o444, 493 = 0o755, 365 = 0o555;
\* a mode field may carry the type bits too (0o40000 + permissions).
TarFileA == <<Reg(Pa, 420)>>

TarFileARo == <<Reg(Pa, 292)>>

TarFileC == <<Reg(Pc, 420)>>

TarDirA == <<Dir(Pa, DIRECTORY_MODE + 493), Reg(Pab, 420)>>

TarDirARo == <<Dir(Pa, DIRECTORY_MODE + 365), Dir(Pab, DIRECTORY_MODE + 365)>>

TarDirANoBit == <<Dir(Pa, 365)>>

TarChildFirst == <<Dir(Pab, DIRECTORY_MODE + 493), Dir(Pa, 493)>>

TarFileAB == <<Reg(Pab, 420)>>

TarWhA == <<Reg(PwhA, 420)>>

TarWhC == <<Reg(PwhC, 420), Reg(Pa, 420)>>

TarWhAB == <<Reg(PaWhB, 420)>>

\* A file b in a directory whose name begins with the prefix: '.wh.a/b'
TarWhSeg == <<Reg(PwhAb, 420)>>

\* A marker in a directory recorded without the owner's write bit (0o555)
TarWhInRo == <<Dir(Pa, 365), Reg(PaWhB, 420)>>

\* The layer archives the content family combines freely.
LayerTars ==
    {TarFileA, TarDirA, TarDirANoBit, TarChildFirst, TarWhA, TarWhAB, TarWhInRo}

\* Whole images for the families that vary something else.
ImgPlain == [i \in Ids |-> CASE i = "L1" -> TarDirA [] i = "L2" -> TarWhAB [] i = "L3" -> TarFileAB]

ImgWhiteout == [i \in Ids |-> CASE i = "L1" -> TarFileA [] i = "L2" -> TarWhA [] i = "L3" -> TarFileC]

ImgReadOnly == [i \in Ids |-> CASE i = "L1" -> TarDirARo [] i = "L2" -> TarFileAB [] i = "L3" -> TarFileARo]

ImgMixed == [i \in Ids |-> CASE i = "L1" -> TarFileARo [] i = "L2" -> TarWhC [] i = "L3" -> TarDirANoBit]

ImgSegment == [i \in Ids |-> CASE i = "L1" -> TarDirA [] i = "L2" -> TarWhSeg [] i = "L3" -> TarFileC]

Images == {ImgPlain, ImgWhiteout, ImgReadOnly, ImgMixed, ImgSegment}

\* L3 -> L2 -> L1
ParentLinear == [i \in Ids |-> CASE i = "L3" -> "L2" [] i = "L2" -> "L1" [] i = "L1" -> NoParent]

Tag(t, id) == [tag |-> t, id |-> id]

Repo(n, ts) == [name |-> n, tags |-> ts]

ReposOne == <<Repo(<<"app">>, <<Tag(<<"v1">>, "L3"), Tag(<<"v2">>, "L2")>>)>>

ReposTwo == <<Repo(<<"app">>, <<Tag(<<"v1">>, "L3")>>), Repo(<<"db">>, <<Tag(<<"v1">>, "L1")>>)>>

ReposNoTag == <<Repo(<<"app">>, <<>>)>>

Manifests == {ReposOne, ReposTwo, ReposNoTag}

\* Image references: "", "app", "app:v1", "app:v2", "app:v9", "web", "web:v1", "db"
NoImage == <<>>

ImageRefs ==
    {NoImage, <<"app">>, <<"app", ":", "v1">>, <<"app", ":", "v2">>,
     <<"app", ":", "v9">>, <<"web">>, <<"web", ":", "v1">>, <<"db">>}

\* args.layer is None (here {}) or the list of the --layer options
ArgsDefault ==
    [image |-> <<"app", ":", "v1">>, output |-> ".", layer |-> {},
     no_whiteouts |-> FALSE, ignore_errors |-> FALSE, layers |-> FALSE,
     list |-> FALSE]

Outputs == {".", "out"}

EnvUser == [root |-> FALSE, fail |-> "none"]

EnvRoot == [root |-> TRUE, fail |-> "none"]

Envs ==
    {EnvUser, EnvRoot, [root |-> TRUE, fail |-> "chown"],
     [root |-> FALSE, fail |-> "utime"], [root |-> FALSE, fail |-> "chmod"]}

-----------------------------------------------------------------------------
(* The file system *)

\* The process's user and the time of a write, as the stamps of a node.
User == "user"

Now == "now"

Node(kind, mode, data, owner, mtime) ==
    [kind |-> kind, mode |-> mode, data |-> data, owner |-> owner, mtime |-> mtime]

\* The working directory, and what lies in it before the run.
CwdRoot == <<"cwd", <<>>>>

FsEmpty == (CwdRoot :> Node("dir", 493, "-", User, "old"))

FsWithA == FsEmpty @@ (<<"cwd", Pa>> :> Node("reg", 420, "old", User, "old"))

\* The working directory holds a file a and a file .wh.a, both of its own
FsLeftover == FsWithA @@ (<<"cwd", PwhA>> :> Node("reg", 420, "old", User, "old"))

-----------------------------------------------------------------------------
(* Init *)

InitWith(a, r, p, t, e, f) ==
    /\ args = a
    /\ repos = r
    /\ parent = p
    /\ tars = t
    /\ env = e
    /\ fs = f
    /\ pc = "start"
    /\ outcome = ""
    /\ top = ""
    /\ cur = ""
    /\ layers = <<>>
    /\ lookups = <<>>
    /\ idx = 0
    /\ k = 0
    /\ directories = <<>>
    /\ log = <<>>

\* Every parent mapping of the three layers, cyclic and dangling ones too.
InitChain ==
    \E p \in [Ids -> Ids \cup {NoJson, NoParent}], o \in Outputs :
        InitWith([ArgsDefault EXCEPT !.output = o], ReposOne, p, ImgPlain, EnvUser,
                 IF o = "." THEN FsEmpty ELSE FsWithA)

\* Every manifest with every image reference and listing switch.
InitResolve ==
    \E r \in Manifests, i \in ImageRefs, ls \in BOOLEAN, ly \in BOOLEAN :
        InitWith([ArgsDefault EXCEPT !.image = i, !.list = ls, !.layers = ly],
                 r, ParentLinear, ImgPlain, EnvUser, FsEmpty)

\* Every combination of layer archives, into the working directory or not.
InitContent ==
    \E t \in [Ids -> LayerTars], o \in Outputs, e \in {EnvUser, EnvRoot} :
        InitWith([ArgsDefault EXCEPT !.output = o], ReposOne, ParentLinear, t, e,
                 IF o = "." THEN FsEmpty ELSE FsWithA)

\* Every command line and process, on a few images.
InitArgs ==
    \E t \in Images, o \in Outputs, e \in Envs, ly \in SUBSET Ids,
       nw \in BOOLEAN, ie \in BOOLEAN :
        InitWith([ArgsDefault EXCEPT !.output = o, !.layer = ly,
                                     !.no_whiteouts = nw, !.ignore_errors = ie],
                 ReposOne, ParentLinear, t, e,
                 IF o = "." THEN FsEmpty ELSE FsWithA)

\* Extraction into a directory of its own, from a working directory that
\* holds files named like a marker and its target.
InitLeftover ==
    \E t \in Images, e \in {EnvUser, EnvRoot}, nw \in BOOLEAN :
        InitWith([ArgsDefault EXCEPT !.output = "out", !.no_whiteouts = nw],
                 ReposOne, ParentLinear, t, e, FsLeftover)

Init == InitChain \/ InitResolve \/ InitContent \/ InitArgs \/ InitLeftover

-----------------------------------------------------------------------------
(* main: resolving the image reference *)

\* The process ends: sys.exit(code) or an exception nothing catches.
Exit(code, why) ==
    /\ pc' = code
    /\ outcome' = why

\* name in repos
HasRepo(r, n) == \E i \in 1..Len(r) : r[i].name = n

\* repos[name]
RepoTags(r, n) == r[CHOOSE i \in 1..Len(r) : r[i].name = n].tags

HasTag(ts, t) == \E i \in 1..Len(ts) : ts[i].tag = t

\* repos[name][tag]
TagId(ts, t) == ts[CHOOSE i \in 1..Len(ts) : ts[i].tag = t].id

\* image.split(':', 1): <<name, tag>>, or <<image>> when there is no ':'
Split1(image) ==
    IF \E i \in 1..Len(image) : image[i] = ":"
    THEN LET i == CHOOSE j \in 1..Len(image) :
                      image[j] = ":" /\ \A h \in 1..(j - 1) : image[h] # ":"
         IN <<SubSeq(image, 1, i - 1), From(image, i)>>
    ELSE <<image>>

\* lines 144-149: --list prints the manifest and exits
MainList ==
    /\ pc = "start"
    /\ args.list
    /\ Exit("exit0", "listed")
    /\ UNCHANGED <<args, repos, parent, tars, env, top, cur, layers, lookups, fs,
                   idx, k, directories, log>>

\* Faulty variant of Ambiguous: the first repository taken when there are several
AmbiguousIfNone(image, r) == image = NoImage /\ Len(r) = 0

\* lines 151-157: no reference, and not exactly one repository to take
Ambiguous(image, r) == image = NoImage /\ Len(r) # 1

\* lines 151-169: what the reference resolves to, or how resolution ends
Resolve(image, r) ==
    IF Ambiguous(image, r)
    THEN [end |-> "exit1", why |-> "AmbiguousImage"]
    ELSE LET img == IF image = NoImage THEN r[1].name ELSE image
             sp == Split1(img)
         IN IF Len(sp) = 1 /\ ~HasRepo(r, img)
            THEN [end |-> "raised", why |-> "KeyError@161"]
            ELSE IF Len(sp) = 1 /\ RepoTags(r, img) = <<>>
            THEN [end |-> "raised", why |-> "StopIteration@161"]
            ELSE LET name == sp[1]
                     tag == IF Len(sp) = 1 THEN RepoTags(r, img)[1].tag ELSE sp[2]
                 IN IF HasRepo(r, name) /\ HasTag(RepoTags(r, name), tag)
                    THEN [end |-> "", why |-> "", name |-> name, tag |-> tag,
                          top |-> TagId(RepoTags(r, name), tag)]
                    ELSE [end |-> "exit1", why |-> "ImageNotFound"]

MainResolve ==
    /\ pc = "start"
    /\ ~args.list
    /\ LET res == Resolve(args.image, repos)
       IN IF res.end # ""
          THEN /\ Exit(res.end, res.why)
               /\ args' = [args EXCEPT !.image =
                              IF res.why # "AmbiguousImage" /\ args.image = NoImage
                              THEN repos[1].name ELSE args.image]
               /\ UNCHANGED <<top, cur>>
          ELSE /\ args' = [args EXCEPT !.image =
                              IF args.image = NoImage THEN repos[1].name ELSE args.image]
               /\ top' = res.top
               /\ cur' = res.top
               /\ pc' = "walk"
               /\ UNCHANGED outcome
    /\ UNCHANGED <<repos, parent, tars, env, layers, lookups, fs, idx, k,
                   directories, log>>

-----------------------------------------------------------------------------
(* find_layers *)

\* img.extractfile('%s/json' % id) finds the member
HasJson(id) == id \in DOMAIN parent /\ id # NoJson

\* Faulty variant of Yield: the id yielded after the ids of the recursion
YieldAfter(ls, id) == <<id>> \o ls

\* line 118: the id is yielded before the ids of the recursion
Yield(ls, id) == Append(ls, id)

\* Faulty variant of JsonMissing: an id without json taken as the end of the chain
JsonMissingEndsChain ==
    /\ pc' = "walked"
    /\ UNCHANGED <<outcome, cur, layers, lookups>>

\* line 110: extractfile finds no member of that name, the KeyError leaves main
JsonMissing ==
    /\ Exit("raised", "KeyError@110")
    /\ UNCHANGED <<cur, layers, lookups>>

\* lines 109-122, one invocation: read the id's json, yield the id, and recurse
\* on its parent if it names one.
FindLayers ==
    /\ pc = "walk"
    /\ IF Len(layers) >= MaxDepth
       THEN Exit("raised", "RecursionError") /\ UNCHANGED <<cur, layers, lookups>>
       ELSE IF ~HasJson(cur)
       THEN JsonMissing
       ELSE /\ lookups' = Append(lookups, cur)
            /\ layers' = Yield(layers, cur)
            /\ IF parent[cur] # NoParent
               THEN cur' = parent[cur] /\ UNCHANGED <<pc, outcome>>
               ELSE pc' = "walked" /\ UNCHANGED <<cur, outcome>>
    /\ UNCHANGED <<args, repos, parent, tars, env, top, fs, idx, k, directories, log>>

-----------------------------------------------------------------------------
(* Paths and the file system calls *)

\* The root a path given to the operating system is resolved in: '.' and
\* every relative path are resolved in the working directory.
OutRoot(output) == IF output = "." THEN "cwd" ELSE output

\* os.path.join(path, name), as the node it names
Join(output, name) == <<OutRoot(output), name>>

\* A path relative to the working directory, as the node it names
InCwd(name) == <<"cwd", name>>

LastSlash(name) ==
    IF \E i \in 1..Len(name) : name[i] = "/"
    THEN CHOOSE i \in 1..Len(name) :
             name[i] = "/" /\ \A j \in (i + 1)..Len(name) : name[j] # "/"
    ELSE 0

\* os.path.dirname
Dirname(name) == IF LastSlash(name) = 0 THEN <<>> ELSE SubSeq(name, 1, LastSlash(name) - 1)

\* os.path.basename
Basename(name) == From(name, LastSlash(name))

ParentKey(key) == <<key[1], Dirname(key[2])>>

Exists(f, key) == key \in DOMAIN f

IsDir(f, key) == Exists(f, key) /\ f[key].kind = "dir"

\* The process may add and remove entries of the directory: root may always,
\* a user needs the owner's write and search bits (0o300).
CanWriteIn(f, e, dirkey) == e.root \/ BitAnd(f[dirkey].mode, 192) = 192

\* The process may open the file for writing (0o200).
CanWriteFile(f, e, key) == e.root \/ BitAnd(f[key].mode, 128) = 128

\* Adding or removing an entry changes the directory's modification time.
Touch(f, dirkey) == [f EXCEPT ![dirkey].mtime = Now]

Remove(f, key) == [x \in DOMAIN f \ {key} |-> f[x]]

\* os.makedirs(key): the missing ancestors first, each with the default mode
\* 0o755; what was created before a failure stays.
RECURSIVE MakeDirs(_, _, _, _)
MakeDirs(f, e, key, id) ==
    LET pk == ParentKey(key)
        up == IF Exists(f, pk) THEN [ok |-> TRUE, fs |-> f] ELSE MakeDirs(f, e, pk, id)
    IN IF ~up.ok THEN up
       ELSE IF ~IsDir(up.fs, pk) \/ ~CanWriteIn(up.fs, e, pk)
       THEN [ok |-> FALSE, fs |-> up.fs]
       ELSE [ok |-> TRUE,
             fs |-> (key :> Node("dir", 493, id, User, Now)) @@ Touch(up.fs, pk)]

\* tarfile's makefile: open(targetpath, "wb") and copy the member's data
MakeFile(f, e, key, id) ==
    IF Exists(f, key)
    THEN IF f[key].kind = "dir" \/ ~CanWriteFile(f, e, key)
         THEN [ok |-> FALSE, fs |-> f]
         ELSE [ok |-> TRUE, fs |-> [f EXCEPT ![key].data = id, ![key].mtime = Now]]
    ELSE IF ~IsDir(f, ParentKey(key)) \/ ~CanWriteIn(f, e, ParentKey(key))
         THEN [ok |-> FALSE, fs |-> f]
         ELSE [ok |-> TRUE,
               fs |-> (key :> Node("reg", 420, id, User, Now)) @@ Touch(f, ParentKey(key))]

\* tarfile's makedir: os.mkdir(targetpath, 0o700), FileExistsError passed over
MakeDir(f, e, key, id) ==
    IF Exists(f, key) THEN [ok |-> TRUE, fs |-> f]
    ELSE IF ~IsDir(f, ParentKey(key)) \/ ~CanWriteIn(f, e, ParentKey(key))
         THEN [ok |-> FALSE, fs |-> f]
         ELSE [ok |-> TRUE,
               fs |-> (key :> Node("dir", 448, id, User, Now)) @@ Touch(f, ParentKey(key))]

\* One of tarfile's chown, chmod, utime on the node: whether it raises
\* ExtractError, and the file system after it.  chown does nothing unless the
\* process is root; chmod keeps the permission bits of the mode (0o7777).
SetAttr(f, e, key, id, mode, op) ==
    IF op = "chown" /\ ~e.root THEN [ok |-> TRUE, fs |-> f]
    ELSE IF ~Exists(f, key) \/ e.fail = op THEN [ok |-> FALSE, fs |-> f]
    ELSE [ok |-> TRUE,
          fs |-> CASE op = "chown" -> [f EXCEPT ![key].owner = id]
                   [] op = "chmod" -> [f EXCEPT ![key].mode = mode % 4096]
                   [] op = "utime" -> [f EXCEPT ![key].mtime = id]]

\* The calls of ops in order, up to the first that raises ExtractError.
RECURSIVE SetAttrs(_, _, _, _, _, _)
SetAttrs(f, e, key, id, mode, ops) ==
    IF ops = <<>> THEN [failed |-> "none", fs |-> f, applied |-> {}]
    ELSE LET r == SetAttr(f, e, key, id, mode, ops[1])
         IN IF ~r.ok THEN [failed |-> ops[1], fs |-> f, applied |-> {}]
            ELSE LET rest == SetAttrs(r.fs, e, key, id, mode, Tail(ops))
                 IN [rest EXCEPT !.applied = @ \cup {ops[1]}]

\* tarfile's _extract_member: the upper directories, the entry, its attributes.
\* ok is FALSE when an OSError leaves it.
ExtractMember(f, e, key, id, m, set_attrs) ==
    LET up == IF Exists(f, ParentKey(key)) THEN [ok |-> TRUE, fs |-> f]
              ELSE MakeDirs(f, e, ParentKey(key), id)
        made == IF ~up.ok THEN up
                ELSE IF m.type = "dir" THEN MakeDir(up.fs, e, key, id)
                ELSE MakeFile(up.fs, e, key, id)
    IN IF ~made.ok \/ ~set_attrs THEN made
       ELSE [ok |-> TRUE,
             fs |-> SetAttrs(made.fs, e, key, id, m.mode, <<"chown", "chmod", "utime">>).fs]

\* os.unlink(key): the errno it fails with ("" when it removes the entry)
UnlinkErrno(f, e, key) ==
    IF ~Exists(f, key)
    THEN IF Exists(f, ParentKey(key)) /\ ~IsDir(f, ParentKey(key)) THEN "ENOTDIR"
         ELSE "ENOENT"
    ELSE IF f[key].kind = "dir" THEN "EISDIR"
    ELSE IF ~CanWriteIn(f, e, ParentKey(key)) THEN "EACCES"
    ELSE ""

Unlink(f, key) == Remove(Touch(f, ParentKey(key)), key)

-----------------------------------------------------------------------------
(* History *)

Event(op, id, path, ok, mode, note) ==
    [op |-> op, layer |-> id, path |-> path, ok |-> ok, mode |-> mode, note |-> note]

-----------------------------------------------------------------------------
(* main: after the chain is known *)

\* lines 174-176: --layers prints the chain and exits
MainListLayers ==
    /\ pc = "walked"
    /\ args.layers
    /\ Exit("exit0", "layers")
    /\ UNCHANGED <<args, repos, parent, tars, env, top, cur, layers, lookups, fs,
                   idx, k, directories, log>>

\* lines 178-179: the output directory is made if it is none
MainMakeOutput ==
    /\ pc = "walked"
    /\ ~args.layers
    /\ fs' = IF IsDir(fs, Join(args.output, <<>>)) THEN fs
             ELSE (Join(args.output, <<>>) :> Node("dir", 493, "-", User, Now))
                  @@ Touch(fs, CwdRoot)
    /\ pc' = "loop"
    /\ idx' = 1
    /\ UNCHANGED <<args, repos, parent, tars, env, outcome, top, cur, layers,
                   lookups, k, directories, log>>

\* Faulty variant of ExtractionOrder: the chain taken as walked, top first
KeepOrder(ls) == ls

\* line 181: reversed(layers)
ExtractionOrder(ls) == Reverse(ls)

\* Faulty variant of Skipped: the --layer options ignored
NeverSkipped(a, id) == FALSE

\* line 182: the layer is left out
Skipped(a, id) == a.layer # {} /\ id \notin a.layer

\* The layer the loop is at, and its members
Layer == ExtractionOrder(layers)[idx]

Members == tars[Layer]

\* lines 181-188: the next layer of the loop, skipped or opened
MainNextLayer ==
    /\ pc = "loop"
    /\ IF idx > Len(layers)
       THEN Exit("exit0", "done") /\ UNCHANGED <<idx, k, directories, log>>
       ELSE IF Skipped(args, Layer)
       THEN idx' = idx + 1 /\ UNCHANGED <<pc, outcome, k, directories, log>>
       ELSE /\ pc' = "extract"
            /\ k' = 1
            /\ directories' = <<>>
            /\ log' = Append(log, Event("open", Layer, <<>>, TRUE, 0, ""))
            /\ UNCHANGED <<idx, outcome>>
    /\ UNCHANGED <<args, repos, parent, tars, env, top, cur, layers, lookups, fs>>

\* Faulty variant of ErrorLevel: --ignore-errors without effect
AlwaysFatal(a) == 1

\* Faulty variant of ErrorLevel: the strict level asked for by default
StrictByDefault(a) == IF a.ignore_errors THEN 0 ELSE 2

\* line 188: errorlevel
ErrorLevel(a) == IF a.ignore_errors THEN 0 ELSE 1

-----------------------------------------------------------------------------
(* TarFileOverrides.extractall *)

\* Faulty variant of SetAttrsNow: the attributes of directories set at once too
SetAttrsAlways(m) == TRUE

\* line 49: set_attrs=not tarinfo.isdir()
SetAttrsNow(m) == m.type # "dir"

\* lines 42-50: one member of the first pass.  A directory is noted and
\* extracted from a copy with the safe mode, without its attributes; an
\* OSError leaves extract only if errorlevel > 0.
ExtractAllMember ==
    /\ pc = "extract"
    /\ k <= Len(Members)
    /\ LET m == Members[k]
           isdir == m.type = "dir"
           tarinfo == IF isdir THEN [m EXCEPT !.mode = OWNER_READ_WRITE] ELSE m
           r == ExtractMember(fs, env, Join(args.output, m.name), Layer, tarinfo,
                              SetAttrsNow(tarinfo))
       IN /\ directories' = IF isdir THEN Append(directories, m) ELSE directories
          /\ fs' = r.fs
          /\ log' = Append(log, Event("extract", Layer, m.name, r.ok, tarinfo.mode, m.type))
          /\ IF ~r.ok /\ ErrorLevel(args) > 0
             THEN Exit("raised", "OSError@49") /\ UNCHANGED k
             ELSE k' = k + 1 /\ UNCHANGED <<pc, outcome>>
    /\ UNCHANGED <<args, repos, parent, tars, env, top, cur, layers, lookups, idx>>

\* list.sort(key=name): a stable sort, ascending by name
RECURSIVE Insert(_, _)
Insert(sorted, m) ==
    IF sorted = <<>> THEN <<m>>
    ELSE IF StrLess(m.name, sorted[1].name) THEN <<m>> \o sorted
    ELSE <<sorted[1]>> \o Insert(Tail(sorted), m)

RECURSIVE SortByName(_)
SortByName(ds) ==
    IF ds = <<>> THEN <<>>
    ELSE Insert(SortByName(SubSeq(ds, 1, Len(ds) - 1)), ds[Len(ds)])

\* Faulty variant of ReverseSorted: the reverse forgotten
SortedOnly(ds) == SortByName(ds)

\* lines 53-54: directories.sort(key=name); directories.reverse()
ReverseSorted(ds) == Reverse(SortByName(ds))

ExtractAllSort ==
    /\ pc = "extract"
    /\ k > Len(Members)
    /\ directories' = ReverseSorted(directories)
    /\ pc' = "attrs"
    /\ k' = 1
    /\ UNCHANGED <<args, repos, parent, tars, env, outcome, top, cur, layers,
                   lookups, fs, idx, log>>

\* Faulty variant of FinalDirMode: the recorded mode as it is
RecordedMode(mode) == mode

\* lines 62-63: the mode chmod is given
FinalDirMode(mode) ==
    IF BitAnd(mode, DIRECTORY_MODE) # 0 THEN BitOr(mode, OWNER_WRITE) ELSE mode

\* lines 57-69: owner, time and mode of one noted directory.  The first call
\* that raises ExtractError ends the try block; errorlevel is never above 1,
\* so the error is only reported.
ExtractAllDirAttrs ==
    /\ pc = "attrs"
    /\ k <= Len(directories)
    /\ LET d == directories[k]
           r == SetAttrs(fs, env, Join(args.output, d.name), Layer,
                         FinalDirMode(d.mode), <<"chown", "utime", "chmod">>)
       IN /\ fs' = r.fs
          /\ log' = Append(log, [Event("attrs", Layer, d.name, r.failed = "none",
                                       FinalDirMode(d.mode), r.failed)
                                 EXCEPT !.note = <<r.failed, r.applied, d.mode>>])
          /\ IF r.failed # "none" /\ ErrorLevel(args) > 1
             THEN Exit("raised", "ExtractError@67") /\ UNCHANGED k
             ELSE k' = k + 1 /\ UNCHANGED <<pc, outcome>>
    /\ UNCHANGED <<args, repos, parent, tars, env, top, cur, layers, lookups, idx,
                   directories>>

-----------------------------------------------------------------------------
(* main: whiteouts *)

\* lines 189-191: extractall has returned
MainExtracted ==
    /\ pc = "attrs"
    /\ k > Len(directories)
    /\ IF args.no_whiteouts
       THEN pc' = "loop" /\ idx' = idx + 1 /\ k' = 0
       ELSE pc' = "whiteouts" /\ k' = 1 /\ UNCHANGED idx
    /\ UNCHANGED <<args, repos, parent, tars, env, outcome, top, cur, layers,
                   lookups, fs, directories, log>>

\* line 194
IsWhiteout(path) == StartsWith(path, WH) \/ Contains(path, <<"/">> \o WH)

\* lines 195-198
NewPath(path) ==
    IF StartsWith(path, WH) THEN From(path, 4)
    ELSE Replace(path, <<"/">> \o WH, <<"/">>)

\* lines 202-203: the paths are handed to os.unlink as they are in the archive
UnlinkTarget(a, path) == InCwd(path)

\* Faulty variant of Swallowed: every errno passed over
SwallowAll(errno) == TRUE

\* lines 204-206: the OSError the handler does not raise again
Swallowed(errno) == errno = "ENOENT"

\* lines 192-206: one member of the layer.  The marker is unlinked, then the
\* path it names; a missing entry (ENOENT) ends the pair, any other error
\* leaves main.
MainWhiteout ==
    /\ pc = "whiteouts"
    /\ k <= Len(Members)
    /\ LET path == Members[k].name
           key1 == UnlinkTarget(args, path)
           key2 == UnlinkTarget(args, NewPath(path))
           e1 == UnlinkErrno(fs, env, key1)
           fs1 == IF e1 = "" THEN Unlink(fs, key1) ELSE fs
           e2 == IF e1 = "" THEN UnlinkErrno(fs1, env, key2) ELSE e1
           fs2 == IF e2 = "" THEN Unlink(fs1, key2) ELSE fs1
           log1 == IF e1 = ""
                   THEN Append(log, Event("unlink", Layer, key1, TRUE, 0, <<path, fs[key1].data>>))
                   ELSE log
           log2 == IF e2 = ""
                   THEN Append(log1, Event("unlink", Layer, key2, TRUE, 0, <<path, fs1[key2].data>>))
                   ELSE log1
       IN IF ~IsWhiteout(path)
          THEN k' = k + 1 /\ UNCHANGED <<pc, outcome, fs, log>>
          ELSE /\ fs' = fs2
               /\ log' = log2
               /\ IF e2 = "" \/ Swallowed(e2)
                  THEN k' = k + 1 /\ UNCHANGED <<pc, outcome>>
                  ELSE Exit("raised", "OSError@206") /\ UNCHANGED k
    /\ UNCHANGED <<args, repos, parent, tars, env, top, cur, layers, lookups, idx,
                   directories>>

\* line 192, the loop is over: the layer is closed and the next one is due
MainLayerDone ==
    /\ pc = "whiteouts"
    /\ k > Len(Members)
    /\ pc' = "loop"
    /\ idx' = idx + 1
    /\ k' = 0
    /\ UNCHANGED <<args, repos, parent, tars, env, outcome, top, cur, layers,
                   lookups, fs, directories, log>>

-----------------------------------------------------------------------------

Next ==
    \/ MainList
    \/ MainResolve
    \/ FindLayers
    \/ MainListLayers
    \/ MainMakeOutput
    \/ MainNextLayer
    \/ ExtractAllMember
    \/ ExtractAllSort
    \/ ExtractAllDirAttrs
    \/ MainExtracted
    \/ MainWhiteout
    \/ MainLayerDone

Spec == Init /\ [][Next]_vars

-----------------------------------------------------------------------------
(* Vocabulary of the properties *)

\* The place of a layer in the chain as walked, 1 the top
ChainIndex(id) == CHOOSE i \in 1..Len(layers) : layers[i] = id

\* The steps of one layer, in the order the design wants them
Phase(op) ==
    CASE op = "open" -> 0
      [] op = "extract" -> 1
      [] op = "attrs" -> 2
      [] op = "unlink" -> 3

Finished == pc = "exit0" /\ outcome = "done"

\* The layers extractall was called on, in order
Opened == SelectSeq(log, LAMBDA e : e.op = "open")

\* An entry is a marker when its last segment begins with the prefix
IsMarker(name) == StartsWith(Basename(name), WH)

\* D/X for the marker D/.wh.X
MarkerTarget(name) ==
    IF Dirname(name) = <<>> THEN From(Basename(name), 4)
    ELSE Dirname(name) \o <<"/">> \o From(Basename(name), 4)

\* The layer's whiteouts are applied in this run
Applies(id) == ~Skipped(args, id) /\ ~args.no_whiteouts

\* The layer holds a marker that is, or names, the path
Erases(id, name) ==
    \E i \in 1..Len(tars[id]) :
        /\ IsWhiteout(tars[id][i].name)
        /\ name \in {tars[id][i].name, NewPath(tars[id][i].name)}

\* The layer's archive holds an entry at the path
Holds(id, name) == \E i \in 1..Len(tars[id]) : tars[id][i].name = name

Names(id) == {tars[id][i].name : i \in 1..Len(tars[id])}

\* The layers from this one to the top
Above(id) == {layers[i] : i \in 1..ChainIndex(id)}

-----------------------------------------------------------------------------
(* C1 *)

\* C1: layers are processed base to top; within a layer everything is
\* extracted, then the directories get their attributes, then the whiteouts
\* are applied, and only then the next layer starts.  So a whiteout never
\* removes what a layer above its own has placed, and what a layer extracted
\* is there at the end of the run unless a marker of that layer or of a layer
\* above it erases it.
C1_LayerSteps ==
    /\ \A i, j \in 1..Len(log) :
           i < j =>
               /\ ChainIndex(log[i].layer) >= ChainIndex(log[j].layer)
               /\ log[i].layer = log[j].layer => Phase(log[i].op) <= Phase(log[j].op)
    /\ \A i \in 1..Len(log) :
           (log[i].op = "unlink" /\ log[i].note[2] \in Ids)
               => ChainIndex(log[i].note[2]) >= ChainIndex(log[i].layer)
    /\ Finished =>
           \A i \in 1..Len(log) :
               (/\ log[i].op = "extract"
                /\ log[i].ok
                /\ \A id \in Above(log[i].layer) :
                       Applies(id) => ~Erases(id, log[i].path))
               => Exists(fs, Join(args.output, log[i].path))

\* A lower layer's marker removed the path, a higher layer extracted it again,
\* and the run is over.
C1_Witness ==
    /\ Finished
    /\ \E i, j \in 1..Len(log) :
           /\ i < j
           /\ log[i].op = "unlink"
           /\ log[j].op = "extract"
           /\ log[j].ok
           /\ log[i].layer # log[j].layer
           /\ log[i].path = Join(args.output, log[j].path)
           /\ Exists(fs, log[i].path)

-----------------------------------------------------------------------------
(* C2 *)

\* The layer whose whiteouts have just been applied
JustDone == ExtractionOrder(layers)[idx - 1]

AfterWhiteouts == pc = "loop" /\ idx > 1 /\ Applies(JustDone)

\* C2: after a layer's whiteouts are applied, neither a marker D/.wh.X of the
\* layer nor D/X is in the output tree, wherever the output directory is.
C2_MarkerAndTargetGone ==
    AfterWhiteouts =>
        \A name \in Names(JustDone) :
            IsMarker(name) =>
                /\ ~Exists(fs, Join(args.output, name))
                /\ ~Exists(fs, Join(args.output, MarkerTarget(name)))

-----------------------------------------------------------------------------
(* C3 *)

\* The topmost layer extracted in this run that holds the path
TopHolder(name) ==
    layers[CHOOSE i \in 1..Len(layers) :
               /\ Holds(layers[i], name) /\ ~Skipped(args, layers[i])
               /\ \A j \in 1..(i - 1) : ~(Holds(layers[j], name) /\ ~Skipped(args, layers[j]))]

MemberAt(id, name) ==
    tars[id][CHOOSE i \in 1..Len(tars[id]) :
                 /\ tars[id][i].name = name
                 /\ \A j \in (i + 1)..Len(tars[id]) : tars[id][j].name # name]

\* C3: when two extracted layers hold an entry at the same path, the path ends
\* up as the upper layer's entry: its kind and content, not the lower layer's.
C3_OverlayWins ==
    (Finished /\ env.fail = "none") =>
        \A name \in UNION {Names(id) : id \in Range(layers)} :
            (/\ Cardinality({id \in Range(layers) :
                                Holds(id, name) /\ ~Skipped(args, id)}) >= 2
             /\ \A id \in Above(TopHolder(name)) : Applies(id) => ~Erases(id, name))
            => /\ Exists(fs, Join(args.output, name))
               /\ fs[Join(args.output, name)].kind = MemberAt(TopHolder(name), name).type
               /\ fs[Join(args.output, name)].data = TopHolder(name)

-----------------------------------------------------------------------------
(* C4 *)

\* C4: when the layer just yielded names a parent the walk has already
\* yielded, the walk has failed with CyclicLayerChain.
C4_CycleDetected ==
    (layers # <<>> /\ parent[layers[Len(layers)]] \in Range(layers))
        => (pc = "raised" /\ outcome = "CyclicLayerChain")

-----------------------------------------------------------------------------
(* C5 *)

\* extractall has returned for the layer the loop is at
Extracted == (pc = "attrs" /\ k > Len(directories)) \/ pc = "whiteouts"

\* C5: once a layer is extracted, every directory it holds is writable by its
\* owner on disk (0o200), whatever mode the archive recorded.
C5_DirsOwnerWritable ==
    Extracted =>
        \A i \in 1..Len(Members) :
            (Members[i].type = "dir" /\ IsDir(fs, Join(args.output, Members[i].name)))
            => BitAnd(fs[Join(args.output, Members[i].name)].mode, 128) = 128

-----------------------------------------------------------------------------
(* C6 *)

\* Following 'parent' from the id ends at a layer without parent, through
\* layers that all have a json and without meeting a layer twice.
RECURSIVE Acyclic(_, _)
Acyclic(id, seen) ==
    /\ id \notin seen
    /\ HasJson(id)
    /\ parent[id] = NoParent \/ Acyclic(parent[id], seen \cup {id})

\* The walk has ended and main has the chain
WalkDone ==
    /\ pc \notin {"start", "walk"}
    /\ outcome \notin {"listed", "AmbiguousImage", "ImageNotFound", "KeyError@161",
                       "StopIteration@161", "RecursionError", "KeyError@110"}

OpenedLayers == [i \in 1..Len(Opened) |-> Opened[i].layer]

IsPrefix(s, t) == Len(s) <= Len(t) /\ SubSeq(t, 1, Len(s)) = s

\* C6: for an acyclic chain the walk yields the ids from the top to the base,
\* each the parent of the one before, the last without parent, and opens each
\* id's json once; the layers are extracted in the reverse order.
C6_ChainAndOrder ==
    (top # "" /\ Acyclic(top, {})) =>
        /\ outcome \notin {"RecursionError", "KeyError@110"}
        /\ lookups = layers
        /\ \A i, j \in 1..Len(lookups) : i # j => lookups[i] # lookups[j]
        /\ layers # <<>> => layers[1] = top
        /\ \A i \in 1..(Len(layers) - 1) : parent[layers[i]] = layers[i + 1]
        /\ WalkDone => parent[layers[Len(layers)]] = NoParent
        /\ IsPrefix(OpenedLayers,
                    SelectSeq(Reverse(layers), LAMBDA id : args.layer = {} \/ id \in args.layer))
        /\ (Finished /\ args.layer = {}) => OpenedLayers = Reverse(layers)

\* The chain L3 -> L2 -> L1 was walked and extracted as L1, L2, L3.
C6_Witness ==
    /\ Finished
    /\ layers = <<"L3", "L2", "L1">>
    /\ OpenedLayers = <<"L1", "L2", "L3">>

-----------------------------------------------------------------------------
(* C7 *)

\* C7: with --layer, a layer of the chain that is not named is left out
\* whole: nothing is extracted from it, no marker of it removes anything, and
\* nothing in the tree comes from it; the named layers are taken base to top.
C7_OnlySelectedLayers ==
    args.layer # {} =>
        /\ \A i \in 1..Len(log) : log[i].layer \in args.layer
        /\ \A key \in DOMAIN fs : fs[key].data \in Ids => fs[key].data \in args.layer
        /\ \A key \in DOMAIN fs : fs[key].mtime \in Ids => fs[key].mtime \in args.layer
        /\ IsPrefix(OpenedLayers, SelectSeq(Reverse(layers), LAMBDA id : id \in args.layer))
        /\ Finished => OpenedLayers = SelectSeq(Reverse(layers), LAMBDA id : id \in args.layer)

\* L1 and L3 were extracted without L2, whose marker .wh.a would have removed
\* L1's a from the tree.
C7_Witness ==
    /\ Finished
    /\ args.layer = {"L1", "L3"}
    /\ args.output = "."
    /\ ~args.no_whiteouts
    /\ tars = ImgWhiteout
    /\ OpenedLayers = <<"L1", "L3">>
    /\ Exists(fs, Join(args.output, Pa))
    /\ fs[Join(args.output, Pa)].data = "L1"

-----------------------------------------------------------------------------
(* C8 *)

\* The second pass has just handled the directory before position k
AttrsDone == pc = "attrs" /\ k > 1

\* C8: when the second pass sets the mode of a directory whose recorded mode
\* has the directory bit, the mode on disk has the owner's write bit (0o200).
C8_PostPassModeOwnerWritable ==
    AttrsDone =>
        LET d == directories[k - 1]
        IN ("chmod" \in log[Len(log)].note[2] /\ BitAnd(d.mode, DIRECTORY_MODE) # 0)
           => BitAnd(fs[Join(args.output, d.name)].mode, 128) = 128

\* The mode was set for a directory recorded with the directory bit and
\* without the owner's write bit.
C8_Witness ==
    /\ AttrsDone
    /\ "chmod" \in log[Len(log)].note[2]
    /\ BitAnd(directories[k - 1].mode, DIRECTORY_MODE) # 0
    /\ BitAnd(directories[k - 1].mode, 128) = 0

-----------------------------------------------------------------------------
(* C9 *)

\* p is a directory above q
ProperAncestor(p, q) == Len(q) > Len(p) + 1 /\ StartsWith(q, p \o <<"/">>)

\* C9: within a layer the attributes of a directory are applied before those
\* of any directory above it, and nothing is extracted once the attributes of
\* a directory have been applied.
C9_DeepestFirst ==
    \A i, j \in 1..Len(log) :
        (i < j /\ log[i].layer = log[j].layer /\ log[i].op = "attrs") =>
            /\ log[j].op # "extract"
            /\ log[j].op = "attrs" => ~ProperAncestor(log[i].path, log[j].path)

\* a/b got its attributes before a, in a layer whose archive has a before a/b.
C9_Witness ==
    \E i, j \in 1..Len(log) :
        /\ i < j
        /\ log[i].layer = log[j].layer
        /\ log[i].op = "attrs" /\ log[j].op = "attrs"
        /\ log[i].ok /\ log[j].ok
        /\ ProperAncestor(log[j].path, log[i].path)
        /\ tars[log[i].layer][1].name = log[j].path

-----------------------------------------------------------------------------
(* C10 *)

\* The reference names a repository or a tag that the manifest does not have
RefAbsent ==
    /\ args.image # NoImage
    /\ LET sp == Split1(args.image)
       IN IF ~HasRepo(repos, sp[1]) THEN TRUE
          ELSE Len(sp) = 2 /\ ~HasTag(RepoTags(repos, sp[1]), sp[2])

\* C10: a reference that the manifest does not have ends the run with
\* ImageNotFound and exit code 1, with nothing extracted.
C10_AbsentIsImageNotFound ==
    (RefAbsent /\ ~args.list /\ pc # "start") =>
        (pc = "exit1" /\ outcome = "ImageNotFound" /\ log = <<>>)

-----------------------------------------------------------------------------
(* C11 *)

OutputMade == Exists(fs, <<"out", <<>>>>)

\* C11: without a reference, the one repository of the manifest is taken if
\* there is exactly one; otherwise the run ends with AmbiguousImage and exit
\* code 1, and then no json has been read and nothing has been written.
C11_NoReference ==
    /\ [][(pc = "start" /\ args.image = NoImage /\ ~args.list) =>
             IF Len(repos) = 1
             THEN /\ args'.image = repos[1].name
                  /\ outcome' # "AmbiguousImage"
                  /\ pc' = "walk" => top' = repos[1].tags[1].id
             ELSE /\ pc' = "exit1"
                  /\ outcome' = "AmbiguousImage"
                  /\ fs' = fs]_vars
    /\ [](outcome = "AmbiguousImage" =>
             pc = "exit1" /\ lookups = <<>> /\ log = <<>> /\ ~OutputMade)

\* No reference, two repositories: the run has ended with AmbiguousImage.
C11_Witness ==
    /\ args.image = NoImage
    /\ Len(repos) = 2
    /\ pc = "exit1"
    /\ outcome = "AmbiguousImage"

-----------------------------------------------------------------------------
(* C12 *)

\* The whiteout loop is at a marker
AtMarker ==
    /\ pc = "whiteouts"
    /\ k <= Len(Members)
    /\ IsWhiteout(Members[k].name)

\* Nothing is at the path, and nothing but directories above it
Missing(key) ==
    /\ ~Exists(fs, key)
    /\ ~Exists(fs, ParentKey(key)) \/ IsDir(fs, ParentKey(key))

\* Something is at the path that unlink cannot remove: a directory, or an
\* entry of a directory the process may not write in
Stuck(key) ==
    /\ Exists(fs, key)
    /\ fs[key].kind = "dir" \/ ~CanWriteIn(fs, env, ParentKey(key))

\* C12: at a marker, a path that is not there (the marker's own or the one
\* it names) is passed over and the loop goes on with the next member of
\* the layer; a path that is there and cannot be removed (a directory, or an
\* entry of a directory closed to writing) ends the run with the OSError.
C12_MissingTargetPassedOver ==
    [][AtMarker =>
          LET m == UnlinkTarget(args, Members[k].name)
              t == UnlinkTarget(args, NewPath(Members[k].name))
              goes_on == /\ pc' = "whiteouts"
                         /\ k' = k + 1
                         /\ outcome' = outcome
                         /\ idx' = idx
              raises == pc' = "raised" /\ outcome' = "OSError@206"
          IN /\ Missing(m) => goes_on
             /\ Stuck(m) => raises
             /\ (~Missing(m) /\ ~Stuck(m) /\ Exists(fs, m)) =>
                   /\ Missing(t) => goes_on
                   /\ Stuck(t) => raises]_vars

\* A marker of an earlier layer found nothing to remove and the run went on;
\* a marker of a later layer named a directory and the run has ended there.
C12_Witness ==
    /\ outcome = "OSError@206"
    /\ pc = "raised"
    /\ IsDir(fs, InCwd(Pa))
    /\ \E i, j \in DOMAIN log :
          /\ i < j
          /\ log[i].op = "unlink" /\ log[j].op = "unlink"
          /\ log[i].layer # log[j].layer
          /\ log[i].path = InCwd(PwhA) /\ log[j].path = InCwd(PwhA)
          /\ \A n \in DOMAIN log : log[n].op = "unlink" => n \in {i, j}

\* A marker lies in a directory the process may not write in: the run has
\* ended at the marker, which is still there.
C12_WitnessDenied ==
    /\ outcome = "OSError@206"
    /\ pc = "raised"
    /\ ~env.root
    /\ Members[k].name = PaWhB
    /\ Exists(fs, InCwd(PaWhB))
    /\ ~CanWriteIn(fs, env, InCwd(Pa))

-----------------------------------------------------------------------------
(* C13 *)

\* The i-th event is a member other than a directory that could not be extracted
FailedExtract(i) ==
    /\ log[i].op = "extract"
    /\ log[i].note # "dir"
    /\ ~log[i].ok

\* C13 as stated: a member other than a directory that cannot be extracted
\* ends the run with the error, whatever --ignore-errors says.
C13_AlwaysPropagates ==
    \A i \in DOMAIN log : FailedExtract(i) => pc = "raised" /\ outcome = "OSError@49"

\* C13: a member other than a directory that cannot be extracted ends the
\* run with the OSError unless --ignore-errors is given; with --ignore-errors
\* the error is never raised and the member after it is extracted next.
C13_PropagatesUnlessIgnored ==
    /\ [](\A i \in DOMAIN log : FailedExtract(i) =>
             IF args.ignore_errors
             THEN outcome # "OSError@49"
             ELSE i = Len(log) /\ pc = "raised" /\ outcome = "OSError@49")
    /\ [][(pc = "extract" /\ k <= Len(Members) /\ args.ignore_errors) =>
             (pc' = "extract" /\ k' = k + 1 /\ outcome' = outcome)]_vars

\* With --ignore-errors a file could not be written, the layers after it
\* were extracted all the same, and the run has ended with exit code 0.
C13_Witness ==
    /\ args.ignore_errors
    /\ pc = "exit0"
    /\ outcome = "done"
    /\ \E i, j \in DOMAIN log :
          /\ FailedExtract(i)
          /\ i < j
          /\ log[j].op = "extract" /\ log[j].ok
          /\ log[j].layer # log[i].layer

-----------------------------------------------------------------------------
(* C14 *)

\* The i-th event is a noted directory one of whose attributes could not be set
FailedAttrs(i) == log[i].op = "attrs" /\ ~log[i].ok

\* C14 as stated: there is a setting of the flags under which an attribute
\* that cannot be set in the post-pass ends the run; the one setting that
\* does not ask for errors to be ignored is the candidate.
C14_StrictReachable ==
    \A i \in DOMAIN log :
        (FailedAttrs(i) /\ ~args.ignore_errors) =>
            pc = "raised" /\ outcome = "ExtractError@67"

\* C14: under every setting of the flags an attribute that cannot be set in
\* the post-pass is passed over: the run never ends with the ExtractError,
\* and the post-pass goes on with the next noted directory.
C14_AlwaysSwallowed ==
    /\ [](outcome # "ExtractError@67")
    /\ [][(pc = "attrs" /\ k <= Len(directories)) =>
             (pc' = "attrs" /\ k' = k + 1 /\ outcome' = outcome)]_vars

\* Without --ignore-errors an attribute of a directory could not be set and
\* the run has ended with exit code 0.
C14_Witness ==
    /\ ~args.ignore_errors
    /\ pc = "exit0"
    /\ outcome = "done"
    /\ \E i \in DOMAIN log : FailedAttrs(i)

-----------------------------------------------------------------------------
(* C15 *)

\* Following the parents from id for at most n steps leads to an id without json
RECURSIVE ChainBreaks(_, _)
ChainBreaks(id, n) ==
    IF id = NoParent THEN FALSE
    ELSE IF id \notin Ids THEN TRUE
    ELSE IF n = 0 THEN FALSE
    ELSE ChainBreaks(parent[id], n - 1)

\* C15: when the chain of the resolved image leads to an id without json,
\* the run never gets past the walk: it ends with the KeyError of the lookup,
\* no layer has been opened, the output directory has not been made and the
\* file system is as the run found it.  No step before the end of the walk
\* writes anything.
C15_MissingJsonBeforeAnyWrite ==
    /\ []((top # "" /\ ChainBreaks(top, Cardinality(Ids))) =>
             /\ pc \in {"walk", "raised"}
             /\ pc = "raised" => outcome = "KeyError@110"
             /\ log = <<>>
             /\ ~OutputMade)
    /\ [][(pc = "start" \/ pc = "walk") => (fs' = fs /\ log' = log)]_vars

\* Two ids were read, the parent of the second has no json: the run has ended
\* and the output directory asked for is not there.
C15_Witness ==
    /\ outcome = "KeyError@110"
    /\ pc = "raised"
    /\ Len(layers) = 2
    /\ args.output = "out"
    /\ ~OutputMade

-----------------------------------------------------------------------------
(* C16 *)

\* C16: whatever the whiteout loop removes, it removes for an entry whose
\* last segment begins with '.wh.', and it is that entry itself or the path
\* with the prefix taken off the last segment, the other segments as they are.
C16_FinalSegmentRule ==
    \A i \in DOMAIN log :
        log[i].op = "unlink" =>
            LET name == log[i].note[1]
            IN /\ IsMarker(name)
               /\ IsWhiteout(name)
               /\ log[i].path \in {UnlinkTarget(args, name),
                                   UnlinkTarget(args, MarkerTarget(name))}

-----------------------------------------------------------------------------
(* C17 *)

\* C17: whatever the whiteout loop removes lies in the output directory.
C17_OnlyInsideOutput ==
    \A i \in DOMAIN log :
        log[i].op = "unlink" => log[i].path[1] = OutRoot(args.output)

-----------------------------------------------------------------------------
(* C18 *)

\* C18: in the first pass a directory the step creates has the mode 0o700,
\* the process as owner and the time of its creation, and a directory that
\* was there is left as it is; a file the step writes has the recorded mode
\* and time at once, and the recorded owner when the process is root (no
\* attribute call failing).
C18_FirstPassAttributes ==
    [][(pc = "extract" /\ k <= Len(Members)) =>
          LET m == Members[k]
              key == Join(args.output, m.name)
          IN IF m.type = "dir"
             THEN /\ (~Exists(fs, key) /\ Exists(fs', key)) =>
                        fs'[key] = Node("dir", OWNER_READ_WRITE, Layer, User, Now)
                  /\ Exists(fs, key) => fs'[key] = fs[key]
             ELSE (log'[Len(log')].ok /\ env.fail = "none") =>
                     /\ fs'[key].kind = "reg"
                     /\ fs'[key].data = Layer
                     /\ fs'[key].mode = m.mode % 4096
                     /\ fs'[key].mtime = Layer
                     /\ env.root => fs'[key].owner = Layer]_vars

\* The first pass of a layer with the directory a (recorded 0o755) and the
\* file a/b is over: a is there with 0o700 and the process as owner, a/b has
\* its recorded mode, owner and time.
C18_Witness ==
    /\ pc = "extract"
    /\ k = 3
    /\ Members = TarDirA
    /\ env.root
    /\ LET a == fs[Join(args.output, Pa)]
           b == fs[Join(args.output, Pab)]
       IN /\ a.kind = "dir" /\ a.mode = OWNER_READ_WRITE /\ a.owner = User
          /\ a.data = Layer
          /\ b = Node("reg", 420, Layer, Layer, Layer)

-----------------------------------------------------------------------------
(* C19 *)

\* C19: the mode the second pass has set on a directory is the recorded
\* permission bits, with nothing but the owner's write bit (0o200) added.
C19_AtMostOwnerWriteAdded ==
    AttrsDone =>
        LET d == directories[k - 1]
            recorded == d.mode % 4096
        IN "chmod" \in log[Len(log)].note[2] =>
              fs[Join(args.output, d.name)].mode \in {recorded, BitOr(recorded, 128)}

-----------------------------------------------------------------------------
(* C20 *)

\* C20: when the second pass has handled a directory, the directory has the
\* recorded time unless setting the time is what failed, and the final mode
\* unless setting the mode is what failed: a failure of one attribute leaves
\* the others to be applied.
C20_RemainingAttributesApplied ==
    AttrsDone =>
        LET d == directories[k - 1]
            key == Join(args.output, d.name)
            failed == log[Len(log)].note[1]
        IN Exists(fs, key) =>
              /\ failed # "utime" => fs[key].mtime = Layer
              /\ failed # "chmod" => fs[key].mode = FinalDirMode(d.mode) % 4096

====
